---- MODULE Spec2Model ----
(***************************************************************************)
(* Model of script.py (video-concat): Time arithmetic, the file-name       *)
(* grammar of Basic, Parser.parse_info / parse / clips, the prefix sums of *)
(* Clips.accum and the chapter artifacts written by Output.                *)
(*                                                                         *)
(* Text is modelled as a sequence of one-character strings, so that the   *)
(* regular expressions and the f-string formatting are computed character *)
(* by character.                                                           *)
(***************************************************************************)
EXTENDS Integers, Sequences, FiniteSets, TLC

VARIABLES
    patterns,   \* Parser.patterns: the ordered list of registered patterns
    files,      \* the list of paths handed to Parser.clips
    clips,      \* Clips.clips: the clips built by Parser.clips
    warnings,   \* what logger.warning has been called with, in order
    pc,         \* position of the interactive session
    ret,        \* the last value returned by a Clips method called directly
    disk,       \* content of the files written by Output.project
    tin,        \* the four arguments last given to Time(...)
    t,          \* the Time object those arguments built
    rt          \* Time().from_sec(t.to_msec() / 1000.0), once computed

vars == <<patterns, files, clips, warnings, pc, ret, disk, tin, t, rt>>

(***************************************************************************)
(* Bounds of the model.                                                    *)
(***************************************************************************)
MaxFiles == 3        \* length of the list given to Parser.clips
MaxPatterns == 2     \* length of Parser.patterns in ExtSpec
MaxHr == 1           \* the hr argument of Time(...)
MaxMsecIn == 10000   \* the msec argument of Time(...)

(***************************************************************************)
(* Characters and integers.                                                *)
(***************************************************************************)
DigitChars == <<"0", "1", "2", "3", "4", "5", "6", "7", "8", "9">>

\* \d
IsDigit(c) == \E d \in 1..10 : DigitChars[d] = c

DigitVal(c) == (CHOOSE d \in 1..10 : DigitChars[d] = c) - 1

\* int(s) for a string of decimal digits
RECURSIVE int(_)
int(s) ==
    IF s = <<>> THEN 0
    ELSE int(SubSeq(s, 1, Len(s) - 1)) * 10 + DigitVal(s[Len(s)])

\* f"{n}" for n >= 0
RECURSIVE str(_)
str(n) ==
    IF n < 10 THEN <<DigitChars[n + 1]>>
    ELSE str(n \div 10) \o <<DigitChars[(n % 10) + 1]>>

\* f"{n:02}"
Pad02(n) == IF n < 10 THEN <<"0">> \o str(n) ELSE str(n)

RECURSIVE Pow2(_)
Pow2(n) == IF n = 0 THEN 1 ELSE 2 * Pow2(n - 1)

\* 2^n modulo k, without leaving the 32-bit integers
RECURSIVE Pow2Mod(_, _)
Pow2Mod(n, k) == IF n = 0 THEN 1 % k ELSE (2 * Pow2Mod(n - 1, k)) % k

\* floor(log2(n)) for n >= 1
RECURSIVE Log2Floor(_)
Log2Floor(n) == IF n < 2 THEN 0 ELSE 1 + Log2Floor(n \div 2)

(***************************************************************************)
(* class Time                                                              *)
(***************************************************************************)
\* as Time, without the division of a four-digit msec
TimeKeepsMsec(hr, min, sec, msec) ==
    [hr |-> hr, min |-> min, sec |-> sec, msec |-> msec]

\* Time(hr, min, sec, msec) with integer arguments, after __post_init__
Time(hr, min, sec, msec) ==
    [hr |-> hr, min |-> min, sec |-> sec,
     msec |-> IF msec >= 1000 THEN msec \div 10 ELSE msec]

\* Time(*groups): the arguments are digit strings, __post_init__ applies int()
TimeOfStrings(g) == Time(int(g[1]), int(g[2]), int(g[3]), int(g[4]))

to_msec(self) ==
    ((self.hr * 3600 + self.min * 60 + self.sec) * 1000) + self.msec

(***************************************************************************)
(* Binary64 arithmetic of from_sec.  Every float from_sec receives in the  *)
(* program is the double nearest to M/1000 for an integer M >= 0           *)
(* (to_msec()/1000.0, start/1000, float("<s>.<mmm>")); it is represented   *)
(* by M.  With S = M div 1000 and m = M mod 1000:                          *)
(*   num       = r * 2^-p, r the 53-bit mantissa: M*2^p/1000 rounded half  *)
(*               to even, p = 52 - BinExp(M);                              *)
(*   int(num)  = S;                                                        *)
(*   num - sec = exact (both are multiples of 2^-p and the result is       *)
(*               smaller than num);                                        *)
(*   (num - sec) * 1000 = m + d * 2^-p exactly, d = 1000*(r - q) - rem     *)
(*               with q, rem quotient and remainder of M*2^p by 1000; the  *)
(*               product is rounded to the nearest double, and int()       *)
(*               truncates it: m when the rounded product is >= m, m - 1   *)
(*               when it stays below m.                                    *)
(***************************************************************************)
\* smallest n with m * 2^n >= 1000, for 1 <= m
RECURSIVE ShiftToOne(_)
ShiftToOne(m) == IF m >= 1000 THEN 0 ELSE 1 + ShiftToOne(2 * m)

\* floor(log2(M / 1000)) for M >= 1: the binary exponent of M/1000
BinExp(M) ==
    IF M >= 1000 THEN Log2Floor(M \div 1000) ELSE 0 - ShiftToOne(M)

\* exponent of the binade holding the doubles just below the integer m >= 1
BinadeBelow(m) == Log2Floor(2 * m - 1) - 1

\* remainder of M * 2^p by 1000
DivRem(M, p) == ((M % 1000) * Pow2Mod(p, 1000)) % 1000

\* the quotient of M * 2^p by 1000 is odd
DivQuotOdd(M, p) == ((M % 2000) * Pow2Mod(p, 2000)) % 2000 >= 1000

\* the division M / 1000.0 rounds its mantissa up (round half to even)
DivRoundsUp(M, p) ==
    \/ 2 * DivRem(M, p) > 1000
    \/ 2 * DivRem(M, p) = 1000 /\ DivQuotOdd(M, p)

\* int((num - sec) * 1000) for num the double nearest M / 1000
FracMsec(M) ==
    LET m   == M % 1000
        p   == 52 - BinExp(M)
        rem == DivRem(M, p)
        k   == BinadeBelow(m) - BinExp(M) - 1
    IN  IF m = 0 \/ rem = 0 \/ DivRoundsUp(M, p) THEN m
        ELSE IF k >= 0 /\ (k >= 10 \/ rem <= Pow2(k)) THEN m
        ELSE m - 1

\* Time().from_sec(num), num the double nearest M / 1000
from_sec(M) ==
    LET sec == M \div 1000
        min == sec \div 60
    IN  [hr |-> min \div 60, min |-> min % 60, sec |-> sec % 60,
         msec |-> FracMsec(M)]

(***************************************************************************)
(* Regular expressions, computed on character sequences.                   *)
(***************************************************************************)
\* a regex group that took no part in the match (Python's None)
NoGroup == <<"None">>

Min(S) == CHOOSE x \in S : \A y \in S : x <= y

Max(S) == CHOOSE x \in S : \A y \in S : x >= y

\* "." : any character except a line break
Dot(c) == c # "\n"

\* the literal lit stands at position i of s
LitAt(s, i, lit) ==
    /\ i >= 1
    /\ i + Len(lit) - 1 <= Len(s)
    /\ \A j \in 1..Len(lit) : s[i + j - 1] = lit[j]

\* \d{n} at position i
DigitsAt(s, i, n) ==
    /\ i >= 1
    /\ i + n - 1 <= Len(s)
    /\ \A j \in i..(i + n - 1) : IsDigit(s[j])

\* length of the longest run of digits at position i: what a greedy \d* takes
RECURSIVE DigitRun(_, _)
DigitRun(s, i) ==
    IF i <= Len(s) /\ IsDigit(s[i]) THEN 1 + DigitRun(s, i + 1) ELSE 0

\* (.*) can span s[i..j-1]
NameOk(s, i, j) == \A x \in i..(j - 1) : Dot(s[x])

\* os.path.basename: what follows the last "/"
basename(p) ==
    LET slashes == {i \in 1..Len(p) : p[i] = "/"}
    IN  IF slashes = {} THEN p ELSE SubSeq(p, Max(slashes) + 1, Len(p))

(***************************************************************************)
(* class Basic(Pattern)                                                    *)
(***************************************************************************)
\* \d{4}\.\d{2}\.\d{2} at position i
BasicDateAt(s, i) ==
    /\ DigitsAt(s, i, 4) /\ LitAt(s, i + 4, <<".">>)
    /\ DigitsAt(s, i + 5, 2) /\ LitAt(s, i + 7, <<".">>)
    /\ DigitsAt(s, i + 8, 2)

\* \d{2}\.\d{2}\.\d{2} at position i
BasicTimeAt(s, i) ==
    /\ DigitsAt(s, i, 2) /\ LitAt(s, i + 2, <<".">>)
    /\ DigitsAt(s, i + 3, 2) /\ LitAt(s, i + 5, <<".">>)
    /\ DigitsAt(s, i + 6, 2)

\* Basic.re() after the name group, j the position of the blank that ends
\* the name:  " {date} - {time}\.(\d*)(\.DVR(\.mp4)?)"
BasicTailAt(s, j) ==
    /\ LitAt(s, j, <<" ">>)
    /\ BasicDateAt(s, j + 1)
    /\ LitAt(s, j + 11, <<" ", "-", " ">>)
    /\ BasicTimeAt(s, j + 14)
    /\ LitAt(s, j + 22, <<".">>)
    /\ LitAt(s, j + 23 + DigitRun(s, j + 23), <<".", "D", "V", "R">>)

\* the positions where the pattern can go on after the name group
BasicTails(s) == {j \in 1..Len(s) : BasicTailAt(s, j)}

\* the match of Basic.re() whose name group is s[i..j-1]
BasicMatch(s, i, j, n, mp4) ==
    [found |-> TRUE, start |-> i,
     end |-> IF mp4 THEN j + 30 + n ELSE j + 26 + n,
     groups |-> << SubSeq(s, i, j - 1),
                   SubSeq(s, j + 1, j + 10),
                   SubSeq(s, j + 14, j + 21),
                   SubSeq(s, j + 23, j + 22 + n),
                   SubSeq(s, j + 23 + n,
                          IF mp4 THEN j + 30 + n ELSE j + 26 + n),
                   IF mp4 THEN <<".", "m", "p", "4">> ELSE NoGroup >>]

\* the leftmost match at or after position from, given the tails: the name
\* group is greedy, so the match goes on at the last tail the name can reach
SearchFrom(s, from, tails) ==
    {i \in from..(Len(s) + 1) : \E j \in tails : i <= j /\ NameOk(s, i, j)}

\* as LastTail, with a name group that is not greedy
FirstTail(s, i, tails) == Min({x \in tails : i <= x /\ NameOk(s, i, x)})

LastTail(s, i, tails) == Max({x \in tails : i <= x /\ NameOk(s, i, x)})

BasicMatchAt(s, i, j) ==
    BasicMatch(s, i, j, DigitRun(s, j + 23),
               LitAt(s, j + 27 + DigitRun(s, j + 23), <<".", "m", "p", "4">>))

BasicSearchIn(s, starts, tails) ==
    IF starts = {} THEN [found |-> FALSE]
    ELSE BasicMatchAt(s, Min(starts), LastTail(s, Min(starts), tails))

BasicSearchTails(s, from, tails) ==
    BasicSearchIn(s, SearchFrom(s, from, tails), tails)

\* re.search(self.re(), s) from position from on
BasicSearch(s, from) == BasicSearchTails(s, from, BasicTails(s))

\* re.split(self.re(), s), continued from position from
RECURSIVE BasicSplit(_, _)
BasicSplitAt(s, from, m) ==
    IF ~m.found THEN <<SubSeq(s, from, Len(s))>>
    ELSE <<SubSeq(s, from, m.start - 1)>> \o m.groups
             \o BasicSplit(s, m.end + 1)

BasicSplit(s, from) == BasicSplitAt(s, from, BasicSearch(s, from))

\* cut_pattern() at position i: two \d{2}\.\d{2}\.\d{2}\.\d{3} joined by "-"
CutTimeAt(s, i) ==
    /\ BasicTimeAt(s, i) /\ LitAt(s, i + 8, <<".">>) /\ DigitsAt(s, i + 9, 3)

cut_pattern_at(s, i) ==
    /\ CutTimeAt(s, i) /\ LitAt(s, i + 12, <<"-">>) /\ CutTimeAt(s, i + 13)

\* re.split(self.time_pattern(), tok) for tok a cut time token, without the
\* first and last piece: the four digit groups
time_groups(tok) ==
    <<SubSeq(tok, 1, 2), SubSeq(tok, 4, 5), SubSeq(tok, 7, 8),
      SubSeq(tok, 10, 12)>>

\* the values a clip's cut can hold
EmptyStr == [kind |-> "str", text |-> <<>>]

NoneCut == [kind |-> "None"]

Cut(start, end) == [kind |-> "Cut", start |-> start, end |-> end]

\* what a pattern's parse gives: a ValueError, or (ClipInfo, cut)
Raised == [raised |-> TRUE]

Returned(clip, cut) == [raised |-> FALSE, clip |-> clip, cut |-> cut]

ClipInfo(name, date, time, index) ==
    [name |-> name, date |-> date, time |-> time, index |-> index]

\* Cut(start=Time(*start), end=Time(*end)) for the match at position i
CutAt(s, i) ==
    Cut(TimeOfStrings(time_groups(SubSeq(s, i, i + 11))),
        TimeOfStrings(time_groups(SubSeq(s, i + 13, i + 24))))

\* as CutOfMatches, taking trailing text without a cut for no cut at all
CutOfMatchesLenient(s, at) ==
    IF at = {} THEN Returned(<<>>, NoneCut) ELSE Returned(<<>>, CutAt(s, Min(at)))

CutOfMatches(s, at) ==
    IF at = {} THEN Raised ELSE Returned(<<>>, CutAt(s, Min(at)))

\* Basic.parse_cut: unpacking re.split(...)[1:] into start, end, *_ raises
\* ValueError when the pattern is nowhere in s
parse_cut(s) ==
    IF s = <<>> THEN Returned(<<>>, NoneCut)
    ELSE CutOfMatches(s, {i \in 1..Len(s) : cut_pattern_at(s, i)})

\* return clip, cut: unless parse_cut raised
WithCut(clip, c) == IF c.raised THEN Raised ELSE Returned(clip, c.cut)

\* Basic.parse from the unpacking of re.split(...)[1:] on: it raises ValueError
\* unless the pattern matches exactly once
BasicUnpack(parts) ==
    IF Len(parts) # 7 THEN Raised
    ELSE IF parts[7] = <<>>
         THEN Returned(ClipInfo(parts[1], parts[2], parts[3], parts[4]),
                       EmptyStr)
         ELSE WithCut(ClipInfo(parts[1], parts[2], parts[3], parts[4]),
                      parse_cut(parts[7]))

\* Basic.parse
BasicParse(inpt) == BasicUnpack(Tail(BasicSplit(inpt, 1)))

(***************************************************************************)
(* temporary_pattern: the earlier, blank-separated file names              *)
(***************************************************************************)
\* "(\d{4} \d{2} \d{2})" at position i
LegacyDateAt(s, i) ==
    /\ DigitsAt(s, i, 4) /\ LitAt(s, i + 4, <<" ">>)
    /\ DigitsAt(s, i + 5, 2) /\ LitAt(s, i + 7, <<" ">>)
    /\ DigitsAt(s, i + 8, 2)

\* " {date}   (\d{2} \d{2} \d*)" at position j
LegacyTailAt(s, j) ==
    /\ LitAt(s, j, <<" ">>)
    /\ LegacyDateAt(s, j + 1)
    /\ LitAt(s, j + 11, <<" ", " ", " ">>)
    /\ DigitsAt(s, j + 14, 2) /\ LitAt(s, j + 16, <<" ">>)
    /\ DigitsAt(s, j + 17, 2) /\ LitAt(s, j + 19, <<" ">>)

LegacyTails(s) == {j \in 1..Len(s) : LegacyTailAt(s, j)}

LegacyMatch(s, i, j, n) ==
    [found |-> TRUE, start |-> i, end |-> j + 19 + n,
     groups |-> << SubSeq(s, i, j - 1),
                   SubSeq(s, j + 1, j + 10),
                   SubSeq(s, j + 14, j + 19 + n) >>]

LegacyMatchAt(s, i, j) == LegacyMatch(s, i, j, DigitRun(s, j + 20))

LegacySearchIn(s, starts, tails) ==
    IF starts = {} THEN [found |-> FALSE]
    ELSE LegacyMatchAt(s, Min(starts), LastTail(s, Min(starts), tails))

LegacySearchTails(s, from, tails) ==
    LegacySearchIn(s, SearchFrom(s, from, tails), tails)

LegacySearch(s, from) == LegacySearchTails(s, from, LegacyTails(s))

RECURSIVE LegacySplit(_, _)
LegacySplitAt(s, from, m) ==
    IF ~m.found THEN <<SubSeq(s, from, Len(s))>>
    ELSE <<SubSeq(s, from, m.start - 1)>> \o m.groups
             \o LegacySplit(s, m.end + 1)

LegacySplit(s, from) == LegacySplitAt(s, from, LegacySearch(s, from))

\* name, date, time, rest = re.split(temporary_pattern(), inpt)[1:]; cut = ""
LegacyUnpack(parts) ==
    IF Len(parts) # 4 THEN Raised
    ELSE Returned(ClipInfo(parts[1], parts[2], parts[3], <<>>), EmptyStr)

LegacyParse(inpt) == LegacyUnpack(Tail(LegacySplit(inpt, 1)))

\* p.parse(inpt) for a registered pattern p
PatternParse(p, inpt) ==
    IF p = "Basic" THEN BasicParse(inpt) ELSE LegacyParse(inpt)

(***************************************************************************)
(* The directory the session reads: its entries, and the duration in       *)
(* milliseconds ffmpeg.probe reports for each.                             *)
(***************************************************************************)
\* /v/PZ 2025.07.13 - 02.09.03.696.DVR.mp4
FileA ==
    <<"/", "v", "/", "P", "Z", " ", "2", "0", "2", "5", ".", "0", "7", ".",
      "1", "3", " ", "-", " ", "0", "2", ".", "0", "9", ".", "0", "3", ".",
      "6", "9", "6", ".", "D", "V", "R", ".", "m", "p", "4">>

\* /v/PZ 2025.07.13 - 03.39.22.704.DVR.mp4-00.00.23.029-00.00.31.281.mp4
FileB ==
    <<"/", "v", "/", "P", "Z", " ", "2", "0", "2", "5", ".", "0", "7", ".",
      "1", "3", " ", "-", " ", "0", "3", ".", "3", "9", ".", "2", "2", ".",
      "7", "0", "4", ".", "D", "V", "R", ".", "m", "p", "4", "-", "0", "0",
      ".", "0", "0", ".", "2", "3", ".", "0", "2", "9", "-", "0", "0", ".",
      "0", "0", ".", "3", "1", ".", "2", "8", "1", ".", "m", "p", "4">>

\* /v/A 1 2025.07.15 - 23.59.59.7.DVR.mp4
FileC ==
    <<"/", "v", "/", "A", " ", "1", " ", "2", "0", "2", "5", ".", "0", "7",
      ".", "1", "5", " ", "-", " ", "2", "3", ".", "5", "9", ".", "5", "9",
      ".", "7", ".", "D", "V", "R", ".", "m", "p", "4">>

\* /v/PZ 2025.07.14 - 10.00.00.1.DVR.mp4-x.mp4
FileD ==
    <<"/", "v", "/", "P", "Z", " ", "2", "0", "2", "5", ".", "0", "7", ".",
      "1", "4", " ", "-", " ", "1", "0", ".", "0", "0", ".", "0", "0", ".",
      "1", ".", "D", "V", "R", ".", "m", "p", "4", "-", "x", ".", "m", "p",
      "4">>

\* /v/A 2023 01 02   03 04 05.mp4
FileE ==
    <<"/", "v", "/", "A", " ", "2", "0", "2", "3", " ", "0", "1", " ", "0",
      "2", " ", " ", " ", "0", "3", " ", "0", "4", " ", "0", "5", ".", "m",
      "p", "4">>

\* /v/random.mp4
FileF ==
    <<"/", "v", "/", "r", "a", "n", "d", "o", "m", ".", "m", "p", "4">>

\* /v/notes.txt
FileG ==
    <<"/", "v", "/", "n", "o", "t", "e", "s", ".", "t", "x", "t">>

Directory == {FileA, FileB, FileC, FileD, FileE, FileF, FileG}

\* float(probe["format"]["duration"]) * 1000
DurationMs(file) ==
    CASE file = FileA -> 60000
      [] file = FileB -> 30000
      [] file = FileC -> 15000
      [] file = FileD -> 8252
      [] file = FileE -> 3723004
      [] file = FileF -> 1001
      [] OTHER -> 0

(***************************************************************************)
(* class Parser                                                            *)
(***************************************************************************)
\* the filter of Parser.files: re.match(r".*\.mp4$", str(f)); $ also matches
\* before a line break that ends the string
files_match(s) ==
    \E j \in 1..Len(s) :
        /\ NameOk(s, 1, j)
        /\ LitAt(s, j, <<".", "m", "p", "4">>)
        /\ \/ j + 3 = Len(s)
           \/ j + 4 = Len(s) /\ s[Len(s)] = "\n"

\* Parser.files on a directory listing
ParserFiles(listing) == SelectSeq(listing, files_match)

\* the for loop of Parser.parse_info: no_match and (clip_info, cut) after the
\* patterns pats have been tried on inpt; r is what the first of them gave
RECURSIVE parse_info_loop(_, _, _, _)
parse_info_step(pats, inpt, last, r) ==
    IF r.raised THEN parse_info_loop(Tail(pats), inpt, TRUE, last)
    ELSE parse_info_loop(Tail(pats), inpt, FALSE, r)

parse_info_loop(pats, inpt, no_match, last) ==
    IF pats = <<>> THEN [no_match |-> no_match, last |-> last]
    ELSE parse_info_step(pats, inpt, last, PatternParse(Head(pats), inpt))

\* the end of Parser.parse_info: None and a warning, or (clip_info, cut)
parse_info_return(file, l) ==
    IF l.no_match
    THEN [none |-> TRUE,
          warned |-> <<[msg |-> "is not a match", file |-> file]>>]
    ELSE [none |-> FALSE, warned |-> <<>>,
          clip |-> l.last.clip, cut |-> l.last.cut]

\* Parser.parse_info
parse_info(pats, file) ==
    parse_info_return(file,
                      parse_info_loop(pats, basename(file), TRUE, Raised))

\* Parser.parse once probe and info are there: the Clip, or None
parse_clip(file, probe, info) ==
    IF info.none THEN [none |-> TRUE, warned |-> info.warned]
    ELSE [none |-> FALSE, warned |-> info.warned,
          clip |-> [path |-> file, probe |-> probe,
                    ch |-> [name |-> info.clip.name,
                            date |-> info.clip.date,
                            time |-> info.clip.time,
                            length |-> from_sec(probe),
                            index |-> info.clip.index,
                            cut |-> info.cut]]]

\* Parser.parse
ParserParse(pats, file) ==
    parse_clip(file, DurationMs(file), parse_info(pats, file))

\* the two list comprehensions of Parser.clips: the clips that are not None,
\* and the warnings logged on the way
RECURSIVE parse_all(_, _)
\* as keep_clip, giving up the rest of the batch at a file that is no match
keep_clip_or_stop(c, rest) ==
    IF c.none THEN [clips |-> <<>>, warned |-> c.warned]
    ELSE [clips |-> <<c.clip>> \o rest.clips, warned |-> rest.warned]

keep_clip(c, rest) ==
    [clips  |-> (IF c.none THEN <<>> ELSE <<c.clip>>) \o rest.clips,
     warned |-> c.warned \o rest.warned]

parse_all(pats, fs) ==
    IF fs = <<>> THEN [clips |-> <<>>, warned |-> <<>>]
    ELSE keep_clip(ParserParse(pats, Head(fs)), parse_all(pats, Tail(fs)))

\* Clips.__init__
ClipsInit(r) ==
    [clips  |-> r.clips,
     warned |-> r.warned \o
                (IF Len(r.clips) <= 0
                 THEN <<[msg |-> "no clip candidates", file |-> <<>>]>>
                 ELSE <<>>)]

\* Parser.clips
ParserClips(pats, fs) == ClipsInit(parse_all(pats, fs))

(***************************************************************************)
(* TimeToText, Cut, Chapter                                                *)
(***************************************************************************)
\* YoutubeTimestamp.text
YoutubeTimestamp(time) ==
    Pad02(time.hr) \o <<":">> \o Pad02(time.min) \o <<":">> \o Pad02(time.sec)

\* NoHr.text
NoHr(time) == Pad02(time.min) \o <<":">> \o Pad02(time.sec)

\* str(self.cut): Cut.__str__ with the default style, or the string itself
str_cut(cut) ==
    IF cut.kind = "Cut" THEN NoHr(cut.start) \o <<"-">> \o NoHr(cut.end)
    ELSE IF cut.kind = "str" THEN cut.text
    ELSE <<"N", "o", "n", "e">>

\* "" if self.cut is None else " " + str(self.cut)
cut_text(cut) == IF cut.kind = "None" THEN <<>> ELSE <<" ">> \o str_cut(cut)

\* Chapter.to_text
to_text(ch, start) ==
    YoutubeTimestamp(from_sec(start)) \o <<" ">> \o ch.date \o <<"-">>
        \o ch.time \o cut_text(ch.cut) \o <<"\n">>

\* Chapter.to_meta
to_meta(ch, start) ==
    <<"[", "C", "H", "A", "P", "T", "E", "R", "]", "\n">>
        \o <<"T", "I", "M", "E", "B", "A", "S", "E", "=", "1", "/", "1", "0", "0", "0", "\n">>
        \o <<"S", "T", "A", "R", "T", "=">> \o str(start) \o <<"\n">>
        \o <<"E", "N", "D", "=">> \o str(start + to_msec(ch.length)) \o <<"\n">>
        \o <<"t", "i", "t", "l", "e", "=">> \o ch.date \o <<"-">> \o ch.time \o cut_text(ch.cut)
        \o <<"\n">>
        \o <<"i", "n", "d", "e", "x", "=">> \o ch.index \o <<"\n">>

(***************************************************************************)
(* class Clips                                                             *)
(***************************************************************************)
\* Clips.accum
RECURSIVE accum_loop(_, _)
accum_loop(lengths, starts) ==
    IF lengths = <<>> THEN starts
    ELSE accum_loop(Tail(lengths),
                    Append(starts, starts[Len(starts)] + Head(lengths)))

\* as accum, appending each length instead of the running sum
accum_lengths(cs) ==
    <<0>> \o [i \in 1..Len(cs) |-> to_msec(cs[i].ch.length)]

accum(cs) ==
    accum_loop([i \in 1..Len(cs) |-> to_msec(cs[i].ch.length)], <<0>>)

\* Clips.title
title(cs) ==
    IF Len(cs) <= 0 THEN <<>>
    ELSE cs[1].ch.name \o <<" ">>
         \o cs[1].ch.date \o <<"-">> \o cs[1].ch.time \o <<" ">>
         \o cs[Len(cs)].ch.date \o <<"-">> \o cs[Len(cs)].ch.time

\* zip(self.clips, starts): as long as the shorter of the two
ZipLen(cs, starts) == IF Len(cs) <= Len(starts) THEN Len(cs) ELSE Len(starts)

\* Clips.meta
meta_zip(cs, starts) ==
    [i \in 1..ZipLen(cs, starts) |-> to_meta(cs[i].ch, starts[i])]

\* as meta, pairing each clip with the offset at which it ends
meta_from_ends(cs) == meta_zip(cs, Tail(accum(cs)))

meta(cs) == meta_zip(cs, accum(cs))

\* Clips.text
text_zip(cs, starts) ==
    [i \in 1..ZipLen(cs, starts) |-> to_text(cs[i].ch, starts[i])]

text(cs) == text_zip(cs, accum(cs))

\* Clips.text_with_index
text_with_index_zip(cs, starts) ==
    [i \in 1..ZipLen(cs, starts) |->
        cs[i].ch.index \o <<"-">> \o to_text(cs[i].ch, starts[i])]

text_with_index(cs) == text_with_index_zip(cs, accum(cs))

\* "".join(parts)
RECURSIVE join(_)
join(parts) == IF parts = <<>> THEN <<>> ELSE Head(parts) \o join(Tail(parts))

(***************************************************************************)
(* class Output: what each method writes to its file                       *)
(***************************************************************************)
Absent == <<"absent">>

OutputInputs(cs) ==
    join([i \in 1..Len(cs) |->
            <<"f", "i", "l", "e", " ", "'">> \o basename(cs[i].path) \o <<"'", "\n">>])

OutputMeta(cs) == <<"t", "i", "t", "l", "e", "=">> \o title(cs) \o <<"\n">> \o join(meta(cs))

OutputText(cs) == title(cs) \o <<"\n">> \o join(text(cs))

OutputIndex(cs) == join(text_with_index(cs))

(***************************************************************************)
(* The session: Parser() is constructed, the directory is read once, then  *)
(* the methods of Clips are called and the project is written.             *)
(***************************************************************************)
\* the listings of the directory, in any order, of at most MaxFiles entries
RECURSIVE Lists(_, _)
Lists(S, n) ==
    IF n = 0 THEN {<<>>}
    ELSE Lists(S, n - 1) \cup
         {Append(l, x) : l \in {k \in Lists(S, n - 1) : Len(k) = n - 1}, x \in S}

NoTime == [hr |-> 0, min |-> 0, sec |-> 0, msec |-> 0]

Init ==
    /\ patterns = <<"Basic">>
    /\ files = <<>>
    /\ clips = <<>>
    /\ warnings = <<>>
    /\ pc = "start"
    /\ ret = [op |-> "none", arg |-> <<>>, val |-> <<>>]
    /\ disk = [inputs |-> Absent, meta |-> Absent, text |-> Absent,
               index |-> Absent]
    /\ tin = <<0, 0, 0, 0>>
    /\ t = NoTime
    /\ rt = [done |-> FALSE, time |-> NoTime]

\* parser.patterns.append(p): a further pattern is registered
Register(p) ==
    /\ pc = "start"
    /\ Len(patterns) < MaxPatterns
    /\ patterns' = Append(patterns, p)
    /\ UNCHANGED <<files, clips, warnings, pc, ret, disk, tin, t, rt>>

\* Interactive.read: parser.files, then parser.clips
read(listing) ==
    /\ pc = "start"
    /\ \E fs \in {ParserFiles(listing)} :
         \E r \in {ParserClips(patterns, fs)} :
            /\ files' = fs
            /\ clips' = r.clips
            /\ warnings' = warnings \o r.warned
    /\ pc' = "read"
    /\ UNCHANGED <<patterns, ret, disk, tin, t, rt>>

\* output.clips.accum()
CallAccum ==
    /\ pc \in {"read", "projected"}
    /\ ret' = [op |-> "accum", arg |-> <<>>, val |-> accum(clips)]
    /\ UNCHANGED <<patterns, files, clips, warnings, pc, disk, tin, t, rt>>

\* output.clips.meta()
CallMeta ==
    /\ pc \in {"read", "projected"}
    /\ ret' = [op |-> "meta", arg |-> <<>>, val |-> meta(clips)]
    /\ UNCHANGED <<patterns, files, clips, warnings, pc, disk, tin, t, rt>>

\* output.clips.text()
CallText ==
    /\ pc \in {"read", "projected"}
    /\ ret' = [op |-> "text", arg |-> <<>>, val |-> text(clips)]
    /\ UNCHANGED <<patterns, files, clips, warnings, pc, disk, tin, t, rt>>

\* Output.project: inputs(), meta(), text()
project ==
    /\ pc = "read"
    /\ disk' = [inputs |-> OutputInputs(clips), meta |-> OutputMeta(clips),
                text |-> OutputText(clips), index |-> OutputIndex(clips)]
    /\ pc' = "projected"
    /\ UNCHANGED <<patterns, files, clips, warnings, ret, tin, t, rt>>

Next ==
    \/ pc = "start" /\ \E listing \in Lists(Directory, MaxFiles) : read(listing)
    \/ CallAccum
    \/ CallMeta
    \/ CallText
    \/ project

Spec == Init /\ [][Next]_vars

(***************************************************************************)
(* Parser.parse_info on its own, as test.py calls it: on file names put    *)
(* together from a name, a date, a time, an index and what follows the     *)
(* file type, and on the entries of the directory.                         *)
(***************************************************************************)
Dirs == {<<>>, <<"/", "a", "b", "c", "/", "c", "d", "e", "/">>}

Names == {<<"P", "r", "o", "j", "e", "c", "t", " ", "Z", "o", "m", "b", "o", "i", "d">>, <<"P", "Z">>, <<>>,
          <<"X", " ", "2", "0", "2", "5", ".", "0", "7", ".", "1", "3", " ", "-", " ", "0", "2", ".", "0", "9", ".", "0", "3", ".", "1", ".", "D", "V", "R", ".", "m", "p", "4">>}

Dates == {<<"2", "0", "2", "5", ".", "0", "7", ".", "1", "3">>, <<"1", "9", "9", "9", ".", "1", "2", ".", "3", "1">>}

Times == {<<"0", "2", ".", "0", "9", ".", "0", "3">>, <<"2", "3", ".", "5", "9", ".", "5", "9">>}

Indexes == {<<"6", "9", "6">>, <<"0", "0", "4", "2">>, <<"7">>}

\* the two time tokens of a cut suffix, field by field, with their values
CutTokens ==
    { [start |-> <<<<"0", "0">>, <<"0", "0">>, <<"2", "3">>, <<"0", "2", "9">>>>,
       startv |-> [hr |-> 0, min |-> 0, sec |-> 23, msec |-> 29],
       end |-> <<<<"0", "0">>, <<"0", "0">>, <<"3", "1">>, <<"2", "8", "1">>>>,
       endv |-> [hr |-> 0, min |-> 0, sec |-> 31, msec |-> 281]],
      [start |-> <<<<"0", "1">>, <<"0", "2">>, <<"0", "3">>, <<"0", "0", "4">>>>,
       startv |-> [hr |-> 1, min |-> 2, sec |-> 3, msec |-> 4],
       end |-> <<<<"1", "0">>, <<"5", "9">>, <<"3", "0">>, <<"9", "9", "9">>>>,
       endv |-> [hr |-> 10, min |-> 59, sec |-> 30, msec |-> 999]] }

\* <hh.mm.ss.mmm>
TimeToken(g) ==
    g[1] \o <<".">> \o g[2] \o <<".">> \o g[3] \o <<".">> \o g[4]

\* -<hh.mm.ss.mmm>-<hh.mm.ss.mmm>.mp4
CutSuffix(c) ==
    <<"-">> \o TimeToken(c.start) \o <<"-">> \o TimeToken(c.end) \o <<".", "m", "p", "4">>

\* trailing text that is not a cut suffix
BadTrailings == {<<"-", "x", ".", "m", "p", "4">>, <<".", "b", "a", "k">>, <<"-", "0", "0", ".", "0", "0", ".", "2", "3", ".", "0", "2", "9", ".", "m", "p", "4">>,
                 <<"-", "0", "0", ".", "0", "0", ".", "2", "3", ".", "2", "9", "-", "0", "0", ".", "0", "0", ".", "3", "1", ".", "2", "8", "1", ".", "m", "p", "4">>}

\* <dir><name> <date> - <time>.<index>.DVR.mp4<trailing>
Compose(dir, name, date, time, index, trailing) ==
    dir \o name \o <<" ">> \o date \o <<" ", "-", " ">> \o time \o <<".">> \o index
        \o <<".", "D", "V", "R", ".", "m", "p", "4">> \o trailing

Trailings == {<<>>} \cup {CutSuffix(c) : c \in CutTokens} \cup BadTrailings

TestFiles ==
    {Compose(dir, name, date, time, index, trailing) :
        dir \in Dirs, name \in Names, date \in Dates, time \in Times,
        index \in Indexes, trailing \in Trailings} \cup Directory

\* dut.parse_info(file=file)
CallParseInfo(file) ==
    /\ pc = "start"
    /\ \E r \in {parse_info(patterns, file)} :
          /\ ret' = [op |-> "parse_info", arg |-> file, val |-> r]
          /\ warnings' = warnings \o r.warned
    /\ pc' = "parsed"
    /\ UNCHANGED <<patterns, files, clips, disk, tin, t, rt>>

GrammarNext == pc = "start" /\ \E file \in TestFiles : CallParseInfo(file)

GrammarSpec == Init /\ [][GrammarNext]_vars

\* the same with further patterns registered first
ExtNext ==
    \/ \E p \in {"Basic", "Legacy"} : Register(p)
    \/ GrammarNext

ExtSpec == Init /\ [][ExtNext]_vars


(***************************************************************************)
(* Time on its own: a Time is built from four arguments, then taken        *)
(* through to_msec and from_sec.                                           *)
(***************************************************************************)
\* t = Time(hr, min, sec, msec)
NewTime(hr, min, sec, msec) ==
    /\ pc = "start"
    /\ tin' = <<hr, min, sec, msec>>
    /\ t' = Time(hr, min, sec, msec)
    /\ pc' = "built"
    /\ UNCHANGED <<patterns, files, clips, warnings, ret, disk, rt>>

\* rt = Time().from_sec(t.to_msec() / 1000.0)
RoundTrip ==
    /\ pc = "built"
    /\ rt' = [done |-> TRUE, time |-> from_sec(to_msec(t))]
    /\ pc' = "tripped"
    /\ UNCHANGED <<patterns, files, clips, warnings, ret, disk, tin, t>>

TimeNext ==
    \/ /\ pc = "start"
       /\ \E hr \in 0..MaxHr, min \in {0, 59}, sec \in {0, 1, 59},
             msec \in 0..MaxMsecIn : NewTime(hr, min, sec, msec)
    \/ RoundTrip

TimeSpec == Init /\ [][TimeNext]_vars

(***************************************************************************)
(* Reading the text the program writes.                                    *)
(***************************************************************************)
\* the lines of a text, each ended by a line break
RECURSIVE Lines(_)
Lines(txt) ==
    IF txt = <<>> THEN <<>>
    ELSE LET brk == {i \in 1..Len(txt) : txt[i] = "\n"}
             cut == IF brk = {} THEN Len(txt) + 1 ELSE Min(brk)
         IN  <<SubSeq(txt, 1, cut - 1)>> \o Lines(SubSeq(txt, cut + 1, Len(txt)))

After(line, prefix) == SubSeq(line, Len(prefix) + 1, Len(line))

\* the number a line "KEY=<number>" holds
Field(line, prefix) ==
    IF LitAt(line, 1, prefix) THEN int(After(line, prefix)) ELSE -1

BlockStart(block) == Field(Lines(block)[3], <<"S", "T", "A", "R", "T", "=">>)

BlockEnd(block) == Field(Lines(block)[4], <<"E", "N", "D", "=">>)

\* the lengths of the clips in milliseconds
Lengths == [i \in 1..Len(clips) |-> to_msec(clips[i].ch.length)]

(***************************************************************************)
(* Clips.accum and Clips.meta                                              *)
(***************************************************************************)
\* C1: Clips.accum returns n+1 offsets for n clips, the first 0 and each
\* further one the one before plus the length of the clip before, in
\* milliseconds; lengths 60000, 30000, 15000 give 0, 60000, 90000, 105000.
C1_AccumPrefixSums ==
    ret.op = "accum" =>
        /\ Len(ret.val) = Len(clips) + 1
        /\ ret.val[1] = 0
        /\ \A i \in 1..Len(clips) : ret.val[i + 1] = ret.val[i] + Lengths[i]
        /\ Lengths = <<60000, 30000, 15000>>
               => ret.val = <<0, 60000, 90000, 105000>>

C1_Witness ==
    /\ ret.op = "accum"
    /\ Lengths = <<60000, 30000, 15000>>
    /\ ret.val = <<0, 60000, 90000, 105000>>

\* C2: Clips.meta returns one chapter block per clip, in the order of the
\* clips; the first starts at 0, each END is its START plus the length of its
\* clip, and each later START is the END of the block before it.
C2_ChaptersContiguous ==
    ret.op = "meta" =>
        /\ Len(ret.val) = Len(clips)
        /\ \A i \in 1..Len(ret.val) :
              /\ Len(Lines(ret.val[i])) = 6
              /\ Lines(ret.val[i])[1] = <<"[", "C", "H", "A", "P", "T", "E", "R", "]">>
              /\ LitAt(Lines(ret.val[i])[5], 1,
                       <<"t", "i", "t", "l", "e", "=">> \o clips[i].ch.date \o <<"-">>
                           \o clips[i].ch.time)
              /\ Lines(ret.val[i])[6] = <<"i", "n", "d", "e", "x", "=">> \o clips[i].ch.index
              /\ BlockStart(ret.val[i]) >= 0
              /\ BlockEnd(ret.val[i]) = BlockStart(ret.val[i]) + Lengths[i]
        /\ Len(ret.val) >= 1 => BlockStart(ret.val[1]) = 0
        /\ \A i \in 1..(Len(ret.val) - 1) :
              BlockStart(ret.val[i + 1]) = BlockEnd(ret.val[i])

C2_Witness ==
    /\ ret.op = "meta"
    /\ Len(ret.val) = 3
    /\ BlockStart(ret.val[2]) = 60000
    /\ BlockStart(ret.val[3]) = BlockEnd(ret.val[2])
    /\ BlockEnd(ret.val[3]) > BlockStart(ret.val[3])
(***************************************************************************)
(* Parser.parse_info                                                       *)
(***************************************************************************)
\* parse_info returned (clip_info, cut) with these values
Gave(name, date, time, index, cut) ==
    /\ ~ret.val.none
    /\ ret.val.clip = ClipInfo(name, date, time, index)
    /\ ret.val.cut = cut

\* C3: for a file name <name> <date> - <time>.<digits>.DVR.mp4, with or
\* without a cut suffix, parse_info returns the name, date, time and index
\* of the file name; the cut is the empty string without a suffix, and with
\* one a Cut whose start and end hold the integer values of the four fields
\* of the suffix's first and second time token.
C3_GrammarTokens ==
    ret.op = "parse_info" =>
        \A dir \in Dirs, name \in Names, date \in Dates, time \in Times,
           index \in Indexes :
            /\ ret.arg = Compose(dir, name, date, time, index, <<>>)
                   => Gave(name, date, time, index, EmptyStr)
            /\ \A c \in CutTokens :
                   ret.arg = Compose(dir, name, date, time, index, CutSuffix(c))
                       => Gave(name, date, time, index, Cut(c.startv, c.endv))

C3_Witness ==
    /\ ret.op = "parse_info"
    /\ ret.arg = <<"/", "a", "b", "c", "/", "c", "d", "e", "/", "P", "r", "o", "j", "e", "c", "t", " ", "Z", "o", "m", "b", "o", "i", "d", " ", "2", "0", "2", "5", ".", "0", "7", ".", "1", "3", " ", "-", " ", "0", "2", ".", "0", "9", ".", "0", "3", ".", "6", "9", "6", ".", "D", "V", "R", ".", "m", "p", "4", "-", "0", "0", ".", "0", "0", ".", "2", "3", ".", "0", "2", "9", "-", "0", "0", ".", "0", "0", ".", "3", "1", ".", "2", "8", "1", ".", "m", "p", "4">>
    /\ Gave(<<"P", "r", "o", "j", "e", "c", "t", " ", "Z", "o", "m", "b", "o", "i", "d">>, <<"2", "0", "2", "5", ".", "0", "7", ".", "1", "3">>, <<"0", "2", ".", "0", "9", ".", "0", "3">>, <<"6", "9", "6">>,
            Cut([hr |-> 0, min |-> 0, sec |-> 23, msec |-> 29],
                [hr |-> 0, min |-> 0, sec |-> 31, msec |-> 281]))

\* the registered patterns that match inpt, by their place in the list
Matching(inpt) ==
    {i \in 1..Len(patterns) : ~PatternParse(patterns[i], inpt).raised}

\* C4: parse_info returns what the first registered pattern that matches
\* the file name gives, whatever the patterns after it do, and returns None
\* with a warning only when no registered pattern matches.
C4_FirstSuccessWins ==
    ret.op = "parse_info" =>
        IF Matching(basename(ret.arg)) = {}
        THEN ret.val.none /\ Len(ret.val.warned) = 1
        ELSE /\ ~ret.val.none
             /\ ret.val.clip =
                    PatternParse(patterns[Min(Matching(basename(ret.arg)))],
                                 basename(ret.arg)).clip
             /\ ret.val.cut =
                    PatternParse(patterns[Min(Matching(basename(ret.arg)))],
                                 basename(ret.arg)).cut

\* C10: when the text after the file type is not empty and is no cut suffix,
\* Basic.parse raises and gives no partial result, and parse_info with Basic
\* alone registered returns None and logs one warning naming the file.
C10_BadTrailingIsNoMatch ==
    ret.op = "parse_info" =>
        \A dir \in Dirs, name \in Names, date \in Dates, time \in Times,
           index \in Indexes, bad \in BadTrailings :
            ret.arg = Compose(dir, name, date, time, index, bad)
                => /\ BasicParse(basename(ret.arg)) = Raised
                   /\ ret.val.none
                   /\ ret.val.warned =
                          <<[msg |-> "is not a match", file |-> ret.arg]>>
                   /\ warnings = ret.val.warned

C10_Witness ==
    /\ ret.op = "parse_info"
    /\ ret.arg = <<"P", "Z", " ", "2", "0", "2", "5", ".", "0", "7", ".", "1", "3", " ", "-", " ", "0", "2", ".", "0", "9", ".", "0", "3", ".", "7", ".", "D", "V", "R", ".", "m", "p", "4", "-", "x", ".", "m", "p", "4">>
    /\ ret.val.none
    /\ Len(warnings) = 1

(***************************************************************************)
(* Parser.clips                                                            *)
(***************************************************************************)
\* a registered pattern matches the name of the file
MatchesRegistered(file) == Matching(basename(file)) # {}

NoMatchRegistered(file) == ~MatchesRegistered(file)

IsNoMatchWarning(w) == w.msg = "is not a match"

\* C5: Parser.clips returns one clip for each file whose name matches a
\* registered pattern, in the order of the files; a file that matches none
\* gives no clip and one warning, and the files after it are still parsed.
C5_ClipsSkipNoMatch ==
    pc \in {"read", "projected"} =>
        /\ [i \in 1..Len(clips) |-> clips[i].path]
               = SelectSeq(files, MatchesRegistered)
        /\ [i \in 1..Len(SelectSeq(warnings, IsNoMatchWarning)) |->
               SelectSeq(warnings, IsNoMatchWarning)[i].file]
               = SelectSeq(files, NoMatchRegistered)

C5_Witness ==
    /\ pc = "read"
    /\ files = <<FileA, FileF, FileB>>
    /\ [i \in 1..Len(clips) |-> clips[i].path] = <<FileA, FileB>>
    /\ Len(warnings) = 1

(***************************************************************************)
(* The chapter artifacts                                                   *)
(***************************************************************************)
\* C6: the file Output.meta writes starts with the line ;FFMETADATA1, then
\* the line title=<title of the sequence>, then one [CHAPTER] block per clip
\* in the order of the clips, and nothing else.
C6_MetaFileHeader ==
    pc = "projected" =>
        /\ Len(Lines(disk.meta)) = 2 + 6 * Len(clips)
        /\ Lines(disk.meta)[1] = <<";", "F", "F", "M", "E", "T", "A", "D", "A", "T", "A", "1">>
        /\ Lines(disk.meta)[2] = <<"t", "i", "t", "l", "e", "=">> \o title(clips)
        /\ disk.meta = <<";", "F", "F", "M", "E", "T", "A", "D", "A", "T", "A", "1", "\n">> \o <<"t", "i", "t", "l", "e", "=">> \o title(clips)
                           \o <<"\n">> \o join(meta(clips))

\* the name of the clip's file holds no cut suffix
NoCutSuffix(clip) ==
    \A i \in 1..Len(clip.path) : ~cut_pattern_at(basename(clip.path), i)

\* C9: a clip built from a file name without cut suffix has no cut: its
\* chapter block has the title line title=<date>-<time> and its chapter text
\* line is <hh:mm:ss> <date>-<time>, with nothing after the time.
C9_NoCutNoText ==
    \A i \in 1..Len(clips) :
        NoCutSuffix(clips[i]) =>
            /\ ret.op = "meta" =>
                   /\ clips[i].ch.cut = NoneCut
                   /\ Lines(ret.val[i])[5] =
                          <<"t", "i", "t", "l", "e", "=">> \o clips[i].ch.date \o <<"-">>
                              \o clips[i].ch.time
            /\ ret.op = "text" =>
                   /\ clips[i].ch.cut = NoneCut
                   /\ SubSeq(Lines(ret.val[i])[1], 9, Len(Lines(ret.val[i])[1]))
                          = <<" ">> \o clips[i].ch.date \o <<"-">>
                                \o clips[i].ch.time

(***************************************************************************)
(* Time                                                                    *)
(***************************************************************************)
\* C7: for a Time d built from four non-negative fields, with d.msec below
\* 1000, Time().from_sec(d.to_msec() / 1000.0) has the hr, min, sec and msec
\* of d.
C7_RoundTrip == (pc = "tripped" /\ t.msec < 1000) => rt.time = t

\* C8 as stated: after Time(hr, min, sec, msec) the msec field lies in
\* 0..999 whatever the msec given, a value of 1000 or more being divided by 10.
C8_MsecNormalizedAlways ==
    pc = "built" =>
        /\ t.msec \in 0..999
        /\ tin[4] >= 1000 => t.msec = tin[4] \div 10

\* C8, amended: after Time(hr, min, sec, msec) with msec below 10000 the msec
\* field lies in 0..999: msec itself below 1000, msec divided by 10 (the
\* remainder dropped) from 1000 on; hr, min and sec are kept.
C8_MsecNormalizedFourDigits ==
    (pc = "built" /\ tin[4] < 10000) =>
        /\ t.msec \in 0..999
        /\ tin[4] < 1000 => t.msec = tin[4]
        /\ tin[4] >= 1000 => t.msec = tin[4] \div 10
        /\ <<t.hr, t.min, t.sec>> = <<tin[1], tin[2], tin[3]>>

C8_Witness == pc = "built" /\ tin[4] = 6960 /\ t.msec = 696

====
